---- MODULE Spec2Model ----
(***************************************************************************)
(* Model of the investment-strategy simulators and the return calculator   *)
(* of stock-analysis.py, rolling-20year.py and market-analysis.py.         *)
(*                                                                         *)
(* Numbers.  The code computes in IEEE floats (numpy float64).  A number   *)
(* is modelled as a pair <<n, d>>: an exact rational n/d in lowest terms   *)
(* with d > 0, or one of the three special floats, d = 0:                  *)
(*   <<0, 0>> NaN,  <<1, 0>> +inf,  <<-1, 0>> -inf.                        *)
(* Rounding error and signed zeros are not modelled.                       *)
(***************************************************************************)
EXTENDS Integers, Sequences, FiniteSets

VARIABLES
    data,            \* the price series handed to a strategy (a DataFrame)
    pc,              \* "input" before the call, "done" after it
    op,              \* the function that was called
    result,          \* what the strategy call produced
    final_value,     \* arguments of calculate_returns
    total_invested,
    years,
    returns,         \* what calculate_returns produced
    rpc,             \* "input" / "done" for calculate_returns
    history,         \* the bars the data source holds for the symbol
    today,           \* the day a report handler runs
    frame            \* the inputs, locals and output of the running report handler

vars == <<data, pc, op, result, final_value, total_invested, years, returns, rpc,
          history, today, frame>>

simVars == <<data, pc, op, result>>
retVars == <<final_value, total_invested, years, returns, rpc>>
repVars == <<history, today, frame>>

----------------------------------------------------------------------------
(* Float arithmetic                                                        *)

NaN == <<0, 0>>
PosInf == <<1, 0>>
NegInf == <<-1, 0>>
Zero == <<0, 1>>
One == <<1, 1>>

Abs(n) == IF n < 0 THEN -n ELSE n

Sign(n) == IF n < 0 THEN -1 ELSE IF n > 0 THEN 1 ELSE 0

RECURSIVE GCD(_, _)
GCD(a, b) == IF b = 0 THEN a ELSE GCD(b, a % b)

\* n/d in lowest terms with a positive denominator; d = 0 gives the special floats
Norm(n, d) ==
    IF d = 0 THEN <<Sign(n), 0>>
    ELSE LET g == GCD(Abs(n), Abs(d))
             s == IF d < 0 THEN -1 ELSE 1
         IN  <<(s * n) \div g, (s * d) \div g>>

Num(i) == <<i, 1>>

IsNaN(x) == x = NaN

IsFinite(x) == x[2] # 0

Neg(x) == <<-x[1], x[2]>>

\* x + y; inf + -inf is NaN
Add(x, y) ==
    IF IsNaN(x) \/ IsNaN(y) THEN NaN
    ELSE IF ~IsFinite(x) THEN (IF ~IsFinite(y) /\ y # x THEN NaN ELSE x)
    ELSE IF ~IsFinite(y) THEN y
    ELSE Norm(x[1] * y[2] + y[1] * x[2], x[2] * y[2])

Sub(x, y) == Add(x, Neg(y))

\* x * y; 0 * inf is NaN
Mul(x, y) ==
    IF IsNaN(x) \/ IsNaN(y) THEN NaN
    ELSE IF ~IsFinite(x) \/ ~IsFinite(y)
         THEN <<Sign(x[1]) * Sign(y[1]), 0>>
    ELSE Norm(x[1] * y[1], x[2] * y[2])

\* numpy's x / y: a zero divisor gives +-inf (0 / 0 gives NaN) with a warning,
\* never an exception
Div(x, y) ==
    IF IsNaN(x) \/ IsNaN(y) THEN NaN
    ELSE IF ~IsFinite(y) THEN (IF IsFinite(x) THEN Zero ELSE NaN)
    ELSE IF ~IsFinite(x) THEN <<x[1] * (IF y[1] < 0 THEN -1 ELSE 1), 0>>
    ELSE Norm(x[1] * y[2], x[2] * y[1])

\* comparisons; every comparison with NaN is false
Lt(x, y) ==
    /\ ~IsNaN(x) /\ ~IsNaN(y)
    /\ IF ~IsFinite(x) \/ ~IsFinite(y)
       THEN (IF IsFinite(x) THEN y = PosInf
             ELSE IF IsFinite(y) THEN x = NegInf
             ELSE x = NegInf /\ y = PosInf)
       ELSE x[1] * y[2] < y[1] * x[2]

Le(x, y) == ~IsNaN(x) /\ ~IsNaN(y) /\ (x = y \/ Lt(x, y))

\* Python's ==; NaN equals nothing
Eq(x, y) == ~IsNaN(x) /\ ~IsNaN(y) /\ x = y

RECURSIVE IntPow(_, _)
IntPow(b, k) == IF k = 0 THEN 1 ELSE b * IntPow(b, k - 1)

RECURSIVE PowNat(_, _)
PowNat(x, k) == IF k = 0 THEN One ELSE Mul(x, PowNat(x, k - 1))

----------------------------------------------------------------------------
(* calculate_returns (stock-analysis.py 215-229, rolling-20year.py 74-90:  *)
(* the two bodies are the same statement for statement)                    *)

\* bounds of the inputs of calculate_returns and of the root's precision
MaxValue == 3
MaxYears == 5
RootScale == 10

\* a float known exactly (lo = hi) or only to lie strictly between lo and hi
Exact(x) == [lo |-> x, hi |-> x]

RECURSIVE IntRootFrom(_, _, _)
IntRootFrom(r, n, k) ==
    IF IntPow(r + 1, k) <= n THEN IntRootFrom(r + 1, n, k) ELSE r

\* the largest r with r^k <= n
IntRoot(n, k) == IntRootFrom(0, n, k)

RECURSIVE GridRootFrom(_, _, _, _)
GridRootFrom(r, n, d, k) ==
    IF IntPow(r + 1, k) * d <= n * IntPow(RootScale, k)
    THEN GridRootFrom(r + 1, n, d, k) ELSE r

\* the k-th root of the positive rational b: exact when b is a k-th power of a
\* rational, and otherwise bracketed by two neighbours of the 1/RootScale grid
Root(b, k) ==
    LET rn == IntRoot(b[1], k)
        rd == IntRoot(b[2], k)
    IN  IF IntPow(rn, k) = b[1] /\ IntPow(rd, k) = b[2]
        THEN Exact(<<rn, rd>>)
        ELSE LET r == GridRootFrom(0, b[1], b[2], k)
             IN  [lo |-> Norm(r, RootScale), hi |-> Norm(r + 1, RootScale)]

\* a float that lies strictly between a and b, or is a when a = b
Between(a, b) ==
    IF a = b THEN Exact(a)
    ELSE IF Lt(a, b) THEN [lo |-> a, hi |-> b] ELSE [lo |-> b, hi |-> a]

\* np.power(base, 1 / y) for a number y that is an integer # 0, or a fraction
\* with |y| > 1.  The exponent is 1.0 or -1.0 when y is 1 or -1; otherwise it
\* is a fraction strictly between -1 and 1, for which numpy gives NaN on a
\* negative base.  For a fractional y the power of a positive b with an
\* exponent strictly between 0 and 1 is only known to lie between 1 and b.
np_power(base, y) ==
    IF IsNaN(base) THEN Exact(NaN)
    ELSE IF y = One THEN Exact(base)
    ELSE IF y = Num(-1) THEN Exact(Div(One, base))
    ELSE IF ~IsFinite(base) THEN Exact(IF Lt(Zero, y) THEN PosInf ELSE Zero)
    ELSE IF base = Zero THEN Exact(IF Lt(Zero, y) THEN Zero ELSE PosInf)
    ELSE IF Lt(base, Zero) THEN Exact(NaN)
    ELSE LET b == IF Lt(Zero, y) THEN base ELSE Div(One, base)
         IN  IF y[2] = 1 THEN Root(b, Abs(y[1])) ELSE Between(One, b)

\* variants of the two guards and of the growth formula, used to show that the
\* properties below depend on them
ZeroGuard_InvestedOnly(ti, y) == Eq(ti, Zero)

ZeroGuard_Both(ti, y) == Eq(ti, Zero) /\ Eq(y, Zero)

LossGuard_Strict(fv) == Lt(fv, Zero)

\* if total_invested == 0 or years == 0
ZeroGuard(ti, y) == Eq(ti, Zero) \/ Eq(y, Zero)

\* if final_value <= 0
LossGuard(fv) == Le(fv, Zero)

CompoundGrowth_Clamped(fv, ti, y) ==
    IF Lt(fv, ti) THEN [lo |-> Num(-100), hi |-> Num(-100)]
    ELSE LET p == np_power(Div(fv, ti), y)
         IN  [lo |-> Mul(Sub(p.lo, One), Num(100)),
              hi |-> Mul(Sub(p.hi, One), Num(100))]

\* avg_annual_return = (np.power(final_value / total_invested, 1 / years) - 1) * 100
CompoundGrowth(fv, ti, y) ==
    LET p == np_power(Div(fv, ti), y)
    IN  [lo |-> Mul(Sub(p.lo, One), Num(100)),
         hi |-> Mul(Sub(p.hi, One), Num(100))]

\* calculate_returns(final_value, total_invested, years) for three numbers (the
\* dashboard passes an integer years; rolling-20year.py passes a float that is
\* at least 1).  A zero divisor raises ZeroDivisionError on Python numbers;
\* divisions counts the "/" the call evaluated.
calculate_returns(fv, ti, y) ==
    IF ZeroGuard(ti, y)
    THEN [total |-> Zero, annual |-> Exact(Zero), divisions |-> 0, raised |-> "none"]
    ELSE IF Eq(ti, Zero)
    THEN [total |-> NaN, annual |-> Exact(NaN), divisions |-> 1,
          raised |-> "ZeroDivisionError"]
    ELSE LET total_return ==
                 Mul(Div(Sub(fv, ti), ti), Num(100))
         IN  IF LossGuard(fv)
             THEN [total |-> total_return, annual |-> Exact(Num(-100)),
                   divisions |-> 1, raised |-> "none"]
             ELSE IF Eq(y, Zero)
             THEN [total |-> total_return, annual |-> Exact(NaN),
                   divisions |-> 3, raised |-> "ZeroDivisionError"]
             ELSE [total |-> total_return, annual |-> CompoundGrowth(fv, ti, y),
                   divisions |-> 3, raised |-> "none"]

\* the calls the documentation gives as examples
DocumentedCalls == {<<0, 0, 5>>, <<100, 1000, 5>>, <<2000, 1000, 1>>}

ReturnInputs ==
    ((-MaxValue..MaxValue) \X (-MaxValue..MaxValue) \X (-MaxYears..MaxYears))
        \cup DocumentedCalls

NoReturns == [total |-> NaN, annual |-> Exact(NaN), divisions |-> 0, raised |-> "none"]

\* a date is <<year, month, day>>; the missing date
NaT == <<0, 0, 0>>

NoResult == [value |-> NaN, buying_points |-> <<>>, raised |-> "none"]

\* no report handler is running
NoFrame ==
    [handler |-> "none", pc |-> "idle", initial_date |-> NaT,
     start_date |-> NaT, max_date |-> NaT, years |-> 0,
     selected_strategies |-> <<>>, calls |-> <<>>, rolling_results |-> <<>>,
     output |-> "none"]

InitReturns ==
    /\ \E t \in ReturnInputs :
          /\ final_value = t[1]
          /\ total_invested = t[2]
          /\ years = t[3]
    /\ returns = NoReturns
    /\ rpc = "input"
    /\ data = <<>>
    /\ pc = "idle"
    /\ op = "none"
    /\ result = NoResult
    /\ history = <<>>
    /\ today = NaT
    /\ frame = NoFrame

CallCalculateReturns ==
    /\ rpc = "input"
    /\ returns' = calculate_returns(Num(final_value), Num(total_invested),
                                  Num(years))
    /\ rpc' = "done"
    /\ UNCHANGED <<final_value, total_invested, years>>
    /\ UNCHANGED simVars
    /\ UNCHANGED repVars

NextReturns == CallCalculateReturns

SpecReturns == InitReturns /\ [][NextReturns]_vars

----------------------------------------------------------------------------
(* Price series.  A series is a DataFrame indexed by trading day: a        *)
(* sequence of bars with strictly increasing dates.  A date is             *)
(* <<year, month, day>>; a missing price is NaN.                           *)

\* the default annual investment of both programs
annual_investment == 2000

MonthsPerYear == 12

\* the longest series tried
MaxBars == 2

\* the prices and trading days tried
Prices == {0, 1, 2}

Dates == {<<1, 1, 2>>, <<1, 1, 3>>, <<1, 12, 31>>, <<2, 6, 1>>, <<3, 1, 2>>}

DateLt(a, b) ==
    \/ a[1] < b[1]
    \/ a[1] = b[1] /\ a[2] < b[2]
    \/ a[1] = b[1] /\ a[2] = b[2] /\ a[3] < b[3]

DateLe(a, b) == a = b \/ DateLt(a, b)

Year(bar) == bar.date[1]

\* months since the start of year 0
MonthIndex(bar) == bar.date[1] * MonthsPerYear + (bar.date[2] - 1)

\* the prices of one trading day: low <= open, close <= high, or a day whose
\* prices are all missing
DayPrices ==
    { [Open |-> Num(o), High |-> Num(h), Low |-> Num(l), Close |-> Num(c)] :
        <<o, h, l, c>> \in
            { q \in Prices \X Prices \X Prices \X Prices :
                q[3] <= q[1] /\ q[1] <= q[2] /\ q[3] <= q[4] /\ q[4] <= q[2] } }
    \cup { [Open |-> NaN, High |-> NaN, Low |-> NaN, Close |-> NaN] }

RECURSIVE SortedDates(_)
SortedDates(S) ==
    IF S = {} THEN <<>>
    ELSE LET first == CHOOSE d \in S : \A e \in S : DateLe(d, e)
         IN  <<first>> \o SortedDates(S \ {first})

\* the series with the day prices f[d] on the days d of S
SeriesOf(S, f) ==
    LET ds == SortedDates(S)
    IN  [i \in 1..Len(ds) |->
            [date |-> ds[i], Open |-> f[ds[i]].Open, High |-> f[ds[i]].High,
             Low |-> f[ds[i]].Low, Close |-> f[ds[i]].Close]]

----------------------------------------------------------------------------
(* pandas: grouping, resampling and the aggregations the strategies use    *)

Column(bars, col) == [i \in 1..Len(bars) |-> bars[i][col]]

RECURSIVE SkipNaFrom(_, _)
SkipNaFrom(xs, i) ==
    IF i > Len(xs) THEN 0
    ELSE IF IsNaN(xs[i]) THEN SkipNaFrom(xs, i + 1) ELSE i

\* position of the first value that is not NaN, 0 when there is none
FirstValid(xs) == SkipNaFrom(xs, 1)

\* a first() that takes the first value, missing or not
First_NoSkip(xs) == IF Len(xs) = 0 THEN NaN ELSE xs[1]

\* .first(): the first value that is not NaN, NaN when there is none
First(xs) == IF FirstValid(xs) = 0 THEN NaN ELSE xs[FirstValid(xs)]

\* position of the first occurrence of the smallest value that is not NaN
ArgMin(xs) ==
    IF FirstValid(xs) = 0 THEN 0
    ELSE CHOOSE i \in 1..Len(xs) :
            /\ ~IsNaN(xs[i])
            /\ \A j \in 1..Len(xs) : IsNaN(xs[j]) \/ Le(xs[i], xs[j])
            /\ \A j \in 1..(i - 1) : IsNaN(xs[j]) \/ Lt(xs[i], xs[j])

ArgMax(xs) ==
    IF FirstValid(xs) = 0 THEN 0
    ELSE CHOOSE i \in 1..Len(xs) :
            /\ ~IsNaN(xs[i])
            /\ \A j \in 1..Len(xs) : IsNaN(xs[j]) \/ Le(xs[j], xs[i])
            /\ \A j \in 1..(i - 1) : IsNaN(xs[j]) \/ Lt(xs[j], xs[i])

\* .min() / .max(): NaN values are skipped; NaN when nothing is left
Min(xs) == IF ArgMin(xs) = 0 THEN NaN ELSE xs[ArgMin(xs)]

Max(xs) == IF ArgMax(xs) = 0 THEN NaN ELSE xs[ArgMax(xs)]

\* idxmin / idxmax of a group: the date of the extreme value; for a group of
\* NaN only, NaN (pandas 2.x, with a warning), which pd.isna recognises
IdxMin(bars, col) ==
    IF ArgMin(Column(bars, col)) = 0 THEN NaT
    ELSE bars[ArgMin(Column(bars, col))].date

IdxMax(bars, col) ==
    IF ArgMax(Column(bars, col)) = 0 THEN NaT
    ELSE bars[ArgMax(Column(bars, col))].date

InYear(d, y) == SelectSeq(d, LAMBDA bar : Year(bar) = y)

InMonth(d, mi) == SelectSeq(d, LAMBDA bar : MonthIndex(bar) = mi)

RECURSIVE Ascending(_)
Ascending(S) ==
    IF S = {} THEN <<>>
    ELSE LET least == CHOOSE n \in S : \A k \in S : n <= k
         IN  <<least>> \o Ascending(S \ {least})

\* a grouping that leaves out the last, possibly incomplete, year
GroupedYears_DropLast(d) ==
    LET ys == Ascending({Year(d[i]) : i \in 1..Len(d)})
    IN  SubSeq(ys, 1, Len(ys) - 1)

\* groupby(index.to_period("Y")): one group per year that has a bar
GroupedYears(d) == Ascending({Year(d[i]) : i \in 1..Len(d)})

\* resample("YE") / resample("YS"): one bin per year from the first bar's year
\* to the last bar's, the years without a bar included
ResampledYears(d) ==
    IF Len(d) = 0 THEN <<>>
    ELSE [i \in 1..(Year(d[Len(d)]) - Year(d[1]) + 1) |-> Year(d[1]) + i - 1]

\* resample("MS"): one bin per month from the first bar's month to the last
ResampledMonths(d) ==
    IF Len(d) = 0 THEN <<>>
    ELSE [i \in 1..(MonthIndex(d[Len(d)]) - MonthIndex(d[1]) + 1) |->
            MonthIndex(d[1]) + i - 1]

YearStart(y) == <<y, 1, 1>>

YearEnd(y) == <<y, 12, 31>>

MonthStart(mi) == <<mi \div MonthsPerYear, (mi % MonthsPerYear) + 1, 1>>

----------------------------------------------------------------------------
(* The buying loop shared by the strategies: rows is the aggregated table, *)
(* one row [date, price] per bucket                                        *)

\* a loop that skips nothing
SkipRow_Never(row) == FALSE

\* if pd.isna(price) or pd.isna(buy_date): continue
\* (the loops of rolling-20year.py and of dollar_cost_averaging test the price
\* alone: their dates are bucket labels, which are never missing)
SkipRow(row) == IsNaN(row.price) \/ row.date = NaT

\* shares_bought = amount / price; shares_owned += shares_bought;
\* buying_points.append((date, price))
BuyRow(acc, row, amount) ==
    [shares_owned |-> Add(acc.shares_owned, Div(amount, row.price)),
     buying_points |-> Append(acc.buying_points, <<row.date, row.price>>)]

RECURSIVE BuyLoopFrom(_, _, _, _)
BuyLoopFrom(rows, i, acc, amount) ==
    IF i > Len(rows) THEN acc
    ELSE BuyLoopFrom(rows, i + 1,
                     IF SkipRow(rows[i]) THEN acc ELSE BuyRow(acc, rows[i], amount),
                     amount)

BuyLoop(rows, amount) ==
    BuyLoopFrom(rows, 1, [shares_owned |-> Zero, buying_points |-> <<>>], amount)

\* a valuation at the first close
LastClose_First(d) == d[1].Close

\* last_close = data["Close"].iloc[-1]
LastClose(d) == d[Len(d)].Close

\* the end of a strategy of stock-analysis.py and rolling-20year.py: .iloc[-1]
\* raises IndexError on a series without bars
Valued(d, bought) ==
    IF Len(d) = 0
    THEN [value |-> NaN, buying_points |-> bought.buying_points,
          raised |-> "IndexError"]
    ELSE [value |-> Mul(bought.shares_owned, LastClose(d)),
          buying_points |-> bought.buying_points, raised |-> "none"]

----------------------------------------------------------------------------
(* stock-analysis.py                                                       *)

\* yearly_lows: min and idxmin of Low per year that has a bar
stock_yearly_lows(d) ==
    LET ys == GroupedYears(d)
    IN  [i \in 1..Len(ys) |->
            [date |-> IdxMin(InYear(d, ys[i]), "Low"),
             price |-> Min(Column(InYear(d, ys[i]), "Low"))]]

stock_perfect_market_timing(d, amount) ==
    Valued(d, BuyLoop(stock_yearly_lows(d), Num(amount)))

\* yearly_first_days: first valid Open per year that has a bar; the buy date
\* is the start of the year's period
stock_yearly_first_days(d) ==
    LET ys == GroupedYears(d)
    IN  [i \in 1..Len(ys) |->
            [date |-> YearStart(ys[i]),
             price |-> First(Column(InYear(d, ys[i]), "Open"))]]

stock_immediate_investing(d, amount) ==
    Valued(d, BuyLoop(stock_yearly_first_days(d), Num(amount)))

\* monthly_first_days: first valid Open per month of the resampled range
stock_monthly_first_days(d) ==
    LET ms == ResampledMonths(d)
    IN  [i \in 1..Len(ms) |->
            [date |-> MonthStart(ms[i]),
             price |-> First(Column(InMonth(d, ms[i]), "Open"))]]

\* monthly_investment = annual_investment / 12
monthly_investment(amount) == Div(Num(amount), Num(MonthsPerYear))

stock_dollar_cost_averaging(d, amount) ==
    Valued(d, BuyLoop(stock_monthly_first_days(d), monthly_investment(amount)))

\* peaks taken from the Close column
stock_yearly_peaks_Close(d) ==
    LET ys == GroupedYears(d)
    IN  [i \in 1..Len(ys) |->
            [date |-> IdxMax(InYear(d, ys[i]), "Close"),
             price |-> Max(Column(InYear(d, ys[i]), "Close"))]]

\* yearly_peaks: max and idxmax of High per year that has a bar
stock_yearly_peaks(d) ==
    LET ys == GroupedYears(d)
    IN  [i \in 1..Len(ys) |->
            [date |-> IdxMax(InYear(d, ys[i]), "High"),
             price |-> Max(Column(InYear(d, ys[i]), "High"))]]

stock_invest_at_peaks(d, amount) ==
    Valued(d, BuyLoop(stock_yearly_peaks(d), Num(amount)))

----------------------------------------------------------------------------
(* rolling-20year.py                                                       *)

\* yearly_lows = data.resample("YE")["Low"].min(), labelled with the year's end
rolling_yearly_lows(d) ==
    LET ys == ResampledYears(d)
    IN  [i \in 1..Len(ys) |->
            [date |-> YearEnd(ys[i]),
             price |-> Min(Column(InYear(d, ys[i]), "Low"))]]

rolling_perfect_market_timing(d, amount) ==
    Valued(d, BuyLoop(rolling_yearly_lows(d), Num(amount)))

\* yearly_first_days = data.resample("YS")["Open"].first()
rolling_yearly_first_days(d) ==
    LET ys == ResampledYears(d)
    IN  [i \in 1..Len(ys) |->
            [date |-> YearStart(ys[i]),
             price |-> First(Column(InYear(d, ys[i]), "Open"))]]

rolling_immediate_investing(d, amount) ==
    Valued(d, BuyLoop(rolling_yearly_first_days(d), Num(amount)))

RollingStrategies == {"perfect_market_timing", "immediate_investing"}

\* if data.empty: return 0, []
calculate_strategy_returns(d, amount, strategy_func) ==
    IF Len(d) = 0
    THEN [value |-> Zero, buying_points |-> <<>>, raised |-> "none"]
    ELSE IF strategy_func = "perfect_market_timing"
         THEN rolling_perfect_market_timing(d, amount)
         ELSE rolling_immediate_investing(d, amount)

----------------------------------------------------------------------------
(* market-analysis.py: the strategies return the portfolio value alone,    *)
(* and revalue the portfolio inside the loop                               *)

\* future_data = data.loc[year_end:]
FutureData(d, label) == SelectSeq(d, LAMBDA bar : DateLe(label, bar.date))

RECURSIVE MarketLoopFrom(_, _, _, _, _)
MarketLoopFrom(rows, i, acc, d, amount) ==
    IF i > Len(rows) THEN acc
    ELSE IF IsNaN(rows[i].price) THEN MarketLoopFrom(rows, i + 1, acc, d, amount)
    ELSE LET shares == Add(acc.shares_owned, Div(amount, rows[i].price))
             future_data == FutureData(d, rows[i].date)
         IN  MarketLoopFrom(rows, i + 1,
                 [shares_owned |-> shares,
                  portfolio_value |->
                      IF Len(future_data) # 0
                      THEN Mul(shares, LastClose(future_data))
                      ELSE acc.portfolio_value],
                 d, amount)

MarketLoop(rows, d, amount) ==
    LET acc == MarketLoopFrom(rows, 1,
                   [shares_owned |-> Zero, portfolio_value |-> Zero], d, amount)
    IN  [value |-> acc.portfolio_value, buying_points |-> <<>>, raised |-> "none"]

market_perfect_market_timing(d, amount) ==
    MarketLoop(rolling_yearly_lows(d), d, Num(amount))

market_immediate_investing(d, amount) ==
    MarketLoop(rolling_yearly_first_days(d), d, Num(amount))

----------------------------------------------------------------------------
(* The calls: a series is fetched, then one strategy is run on it          *)

AllSeries ==
    { SeriesOf(S, f) :
        <<S, f>> \in UNION { {S} \X [S -> DayPrices] :
                                S \in {T \in SUBSET Dates : Cardinality(T) <= MaxBars} } }

Init ==
    /\ data \in AllSeries
    /\ pc = "input"
    /\ op = "none"
    /\ result = NoResult
    /\ final_value = 0
    /\ total_invested = 0
    /\ years = 0
    /\ returns = NoReturns
    /\ rpc = "idle"
    /\ history = <<>>
    /\ today = NaT
    /\ frame = NoFrame

Call(name, res) ==
    /\ pc = "input"
    /\ op' = name
    /\ result' = res
    /\ pc' = "done"
    /\ UNCHANGED data
    /\ UNCHANGED retVars
    /\ UNCHANGED repVars

StockPerfectMarketTiming ==
    Call("stock.perfect_market_timing",
         stock_perfect_market_timing(data, annual_investment))

StockImmediateInvesting ==
    Call("stock.immediate_investing",
         stock_immediate_investing(data, annual_investment))

StockDollarCostAveraging ==
    Call("stock.dollar_cost_averaging",
         stock_dollar_cost_averaging(data, annual_investment))

StockInvestAtPeaks ==
    Call("stock.invest_at_peaks",
         stock_invest_at_peaks(data, annual_investment))

RollingCalculateStrategyReturns ==
    \E f \in RollingStrategies :
        Call("rolling." \o f, calculate_strategy_returns(data, annual_investment, f))

MarketPerfectMarketTiming ==
    Call("market.perfect_market_timing",
         market_perfect_market_timing(data, annual_investment))

MarketImmediateInvesting ==
    Call("market.immediate_investing",
         market_immediate_investing(data, annual_investment))

Next ==
    \/ StockPerfectMarketTiming
    \/ StockImmediateInvesting
    \/ StockDollarCostAveraging
    \/ StockInvestAtPeaks
    \/ RollingCalculateStrategyReturns
    \/ MarketPerfectMarketTiming
    \/ MarketImmediateInvesting

Spec == Init /\ [][Next]_vars

----------------------------------------------------------------------------
(* Calendar arithmetic of the report handlers: pd.DateOffset and           *)
(* dateutil's relativedelta move a date by whole months or years and clip  *)
(* the day to the last day of the month reached                            *)

IsLeap(y) == y % 4 = 0 /\ (y % 100 # 0 \/ y % 400 = 0)

DaysInMonth(y, m) ==
    IF m = 2 THEN (IF IsLeap(y) THEN 29 ELSE 28)
    ELSE IF m \in {4, 6, 9, 11} THEN 30 ELSE 31

\* a month step that keeps the day of the month whatever the month's length
AddMonths_NoClip(date, k) ==
    LET mi == date[1] * MonthsPerYear + (date[2] - 1) + k
    IN  <<mi \div MonthsPerYear, (mi % MonthsPerYear) + 1, date[3]>>

\* date + pd.DateOffset(months=k)
AddMonths(date, k) ==
    LET mi == date[1] * MonthsPerYear + (date[2] - 1) + k
        y == mi \div MonthsPerYear
        m == (mi % MonthsPerYear) + 1
        last == DaysInMonth(y, m)
    IN  <<y, m, IF date[3] > last THEN last ELSE date[3]>>

\* date + pd.DateOffset(years=k)
AddYears(date, k) == AddMonths(date, k * MonthsPerYear)

RECURSIVE DaysBeforeMonth(_, _)
DaysBeforeMonth(y, m) ==
    IF m = 1 THEN 0 ELSE DaysBeforeMonth(y, m - 1) + DaysInMonth(y, m - 1)

RECURSIVE DaysBeforeYear(_)
DaysBeforeYear(y) ==
    IF y <= 1 THEN 0
    ELSE DaysBeforeYear(y - 1) + (IF IsLeap(y - 1) THEN 366 ELSE 365)

\* the day's number in the calendar, as date subtraction counts days
Ordinal(date) ==
    DaysBeforeYear(date[1]) + DaysBeforeMonth(date[1], date[2]) + date[3]

----------------------------------------------------------------------------
(* The report handlers: update_results and update_rolling_analysis with    *)
(* calculate_rolling_analysis (stock-analysis.py), main (rolling-20year.py)*)

\* the longest investment period, the most strategies ticked
MaxPeriod == 2
MaxSelected == 2

\* the start dates and the days of the run tried
StartDates == {<<1, 1, 1>>, <<1, 1, 31>>, <<1, 7, 15>>}

Todays == {<<3, 1, 31>>, <<4, 2, 29>>}

\* --months of rolling-20year.py
ExtraMonths == {0, 6}

\* the bars the data source may hold: priced days, and days with no prices
HistoryPrices ==
    { [Open |-> Num(1), High |-> Num(2), Low |-> Num(1), Close |-> Num(2)],
      [Open |-> NaN, High |-> NaN, Low |-> NaN, Close |-> NaN] }

Histories ==
    { SeriesOf(S, f) :
        <<S, f>> \in UNION { {S} \X [S -> HistoryPrices] :
                                S \in {T \in SUBSET Dates : Cardinality(T) <= MaxBars} } }

\* stock.history(start=start_date, end=end_date): the bars from start_date on
\* and before end_date
fetch_stock_data(h, start_date, end_date) ==
    SelectSeq(h, LAMBDA bar : DateLe(start_date, bar.date) /\ DateLt(bar.date, end_date))

\* the keys of the strategies dict of stock-analysis.py, in its order
StrategyNames ==
    <<"Perfect Market Timing", "Immediate Investing", "Dollar-cost Averaging",
      "Invest at Peaks">>

\* strategies[strategy_name](data, annual_investment)
strategies(strategy_name, d, amount) ==
    CASE strategy_name = "Perfect Market Timing" -> stock_perfect_market_timing(d, amount)
      [] strategy_name = "Immediate Investing" -> stock_immediate_investing(d, amount)
      [] strategy_name = "Dollar-cost Averaging" -> stock_dollar_cost_averaging(d, amount)
      [] strategy_name = "Invest at Peaks" -> stock_invest_at_peaks(d, amount)

\* the values of the strategy checklist: the ticked strategies in its order
SelectedLists ==
    { [i \in 1..Cardinality(S) |-> StrategyNames[Ascending(S)[i]]] :
        S \in {T \in SUBSET (1..Len(StrategyNames)) : Cardinality(T) <= MaxSelected} }

\* one call of calculate_returns by a report handler, with what it was given
\* and what it gave
ReturnsCall(strategy_name, res, ti, y) ==
    [Strategy |-> strategy_name, final_value |-> res.value,
     buying_points |-> res.buying_points, total_invested |-> ti, years |-> y,
     returns |-> calculate_returns(res.value, ti, y)]

\* total_invested = annual_investment * years
TotalInvested(res, y) == Num(annual_investment * y)

\* the loop over selected_strategies in update_results and in
\* calculate_rolling_analysis
StockCalls(selected, d, y) ==
    [i \in 1..Len(selected) |->
        LET res == strategies(selected[i], d, annual_investment)
        IN  ReturnsCall(selected[i], res, TotalInvested(res, y), Num(y))]

\* the keys of the strategies dict of rolling-20year.py's main, in its order
MainStrategyNames == <<"Perfect Market Timing", "Immediate Investing">>

MainStrategies == <<"perfect_market_timing", "immediate_investing">>

\* years = max((data.index[-1] - data.index[0]).days / 365.25, 1)
SpanYears(d) ==
    LET days == Ordinal(d[Len(d)].date) - Ordinal(d[1].date)
        y == Norm(4 * days, 1461)
    IN  IF Lt(One, y) THEN y ELSE One

\* the loop over strategies in main
MainCalls(d) ==
    [i \in 1..Len(MainStrategies) |->
        LET res == calculate_strategy_returns(d, annual_investment, MainStrategies[i])
        IN  ReturnsCall(MainStrategyNames[i], res,
                        Num(annual_investment * Len(res.buying_points)), SpanYears(d))]

\* the rows calculate_rolling_analysis appends for one start date
RollingRows(calls, start_date, y) ==
    [i \in 1..Len(calls) |->
        [Strategy |-> calls[i].Strategy,
         StartDate |-> start_date,
         EndDate |-> AddYears(start_date, y),
         TotalReturn |-> calls[i].returns.total,
         AvgAnnualReturn |-> calls[i].returns.annual]]

Enter(handler, start_date, y, selected) ==
    [NoFrame EXCEPT !.handler = handler, !.initial_date = start_date,
                    !.start_date = start_date, !.years = y,
                    !.selected_strategies = selected]

InitReport ==
    /\ history \in Histories
    /\ today \in Todays
    /\ frame = NoFrame
    /\ data = <<>>
    /\ pc = "idle"
    /\ op = "none"
    /\ result = NoResult
    /\ final_value = 0
    /\ total_invested = 0
    /\ years = 0
    /\ returns = NoReturns
    /\ rpc = "idle"

\* update_results of stock-analysis.py, after a click
UpdateResults ==
    /\ frame.pc = "idle"
    /\ \E start_date \in StartDates, y \in 1..MaxPeriod, selected \in SelectedLists :
          LET d == fetch_stock_data(history, start_date, AddYears(start_date, y))
              f == Enter("update_results", start_date, y, selected)
          IN  /\ data' = d
              /\ frame' = IF Len(d) = 0
                          THEN [f EXCEPT !.pc = "done", !.output = "error"]
                          ELSE [f EXCEPT !.pc = "done", !.output = "report",
                                         !.calls = StockCalls(selected, d, y)]
    /\ UNCHANGED <<pc, op, result, history, today>>
    /\ UNCHANGED retVars

\* main of rolling-20year.py
Main ==
    /\ frame.pc = "idle"
    /\ \E start_date \in StartDates, y \in 1..MaxPeriod, months \in ExtraMonths :
          LET end_date == AddMonths(start_date, y * MonthsPerYear + months)
              d == fetch_stock_data(history, start_date, end_date)
              f == Enter("main", start_date, y, MainStrategyNames)
          IN  /\ data' = d
              /\ frame' = IF Len(d) = 0
                          THEN [f EXCEPT !.pc = "done", !.output = "error"]
                          ELSE [f EXCEPT !.pc = "done", !.output = "report",
                                         !.calls = MainCalls(d)]
    /\ UNCHANGED <<pc, op, result, history, today>>
    /\ UNCHANGED retVars

\* update_rolling_analysis after a click, up to the first test of the loop of
\* calculate_rolling_analysis
UpdateRollingAnalysis ==
    /\ frame.pc = "idle"
    /\ \E start_date \in StartDates, y \in 1..MaxPeriod, selected \in SelectedLists :
          LET d == fetch_stock_data(history, start_date, today)
              f == Enter("update_rolling_analysis", start_date, y, selected)
          IN  /\ data' = d
              /\ frame' = IF Len(d) = 0
                          THEN [f EXCEPT !.pc = "done", !.output = "error"]
                          ELSE [f EXCEPT !.pc = "loop",
                                         !.max_date = AddYears(today, -y)]
    /\ UNCHANGED <<pc, op, result, history, today>>
    /\ UNCHANGED retVars

\* one pass of the while loop of calculate_rolling_analysis; an empty window
\* breaks out of the loop and the rows so far are returned
RollingIteration ==
    /\ frame.pc = "loop"
    /\ DateLe(frame.start_date, frame.max_date)
    /\ LET d == fetch_stock_data(history, frame.start_date,
                                 AddYears(frame.start_date, frame.years))
           calls == StockCalls(frame.selected_strategies, d, frame.years)
       IN  /\ data' = d
           /\ frame' = IF Len(d) = 0
                       THEN [frame EXCEPT !.pc = "done", !.output = "table"]
                       ELSE [frame EXCEPT
                               !.calls = @ \o calls,
                               !.rolling_results =
                                   @ \o RollingRows(calls, frame.start_date, frame.years),
                               !.start_date = AddMonths(@, 1)]
    /\ UNCHANGED <<pc, op, result, history, today>>
    /\ UNCHANGED retVars

\* the loop test fails: calculate_rolling_analysis returns its rows
RollingReturn ==
    /\ frame.pc = "loop"
    /\ ~DateLe(frame.start_date, frame.max_date)
    /\ frame' = [frame EXCEPT !.pc = "done", !.output = "table"]
    /\ UNCHANGED <<history, today>>
    /\ UNCHANGED simVars
    /\ UNCHANGED retVars

NextReport ==
    \/ UpdateResults
    \/ Main
    \/ UpdateRollingAnalysis
    \/ RollingIteration
    \/ RollingReturn

SpecReport == InitReport /\ [][NextReport]_vars

----------------------------------------------------------------------------
(* Properties of calculate_returns, checked under SpecReturns              *)

ReturnsDone == rpc = "done"

\* 1 + a / 100: the yearly growth factor that the annualized return a stands for
GrowthFactor(a) == Add(Div(a, Num(100)), One)

\* a is ((fv / ti) ** (1 / y) - 1) * 100, stated through the inverse operation:
\* the growth factor of a, raised to the power |y|, gives back fv / ti (ti / fv
\* for y < 0), exactly when a is exact and within the bracket otherwise.  The
\* power is undefined in the reals for a negative ratio and a fractional
\* exponent, where numpy gives NaN.
IsCompoundGrowth(a, fv, ti, y) ==
    LET ratio == Norm(fv, ti)
        target == IF y > 0 THEN ratio ELSE Norm(ti, fv)
        k == Abs(y)
    IN  IF ratio[1] < 0 /\ k >= 2 THEN a = Exact(NaN)
        ELSE IF ratio[1] < 0 THEN a.lo = a.hi /\ GrowthFactor(a.lo) = target
        ELSE /\ Le(Zero, GrowthFactor(a.lo))
             /\ Le(PowNat(GrowthFactor(a.lo), k), target)
             /\ Le(target, PowNat(GrowthFactor(a.hi), k))
             /\ a.lo = a.hi => PowNat(GrowthFactor(a.lo), k) = target
             /\ Le(Mul(Sub(a.hi, a.lo), Num(RootScale)), Num(100))

\* C1: whenever total_invested == 0 or years == 0, calculate_returns returns
\* exactly (0, 0), for every final_value, and evaluates no division.
C1_ZeroInputsReturnZero ==
    (ReturnsDone /\ (total_invested = 0 \/ years = 0)) =>
        /\ returns.total = Zero
        /\ returns.annual = Exact(Zero)
        /\ returns.divisions = 0
        /\ returns.raised = "none"

C1_Witness ==
    /\ ReturnsDone
    /\ years = 0 /\ total_invested # 0 /\ final_value > 0
    /\ returns.total = Zero /\ returns.divisions = 0

\* C2: with total_invested # 0 and years # 0 the annualized return is -100
\* if and only if final_value <= 0, and for final_value > 0 it is the
\* compound-growth value ((final_value / total_invested) ** (1 / years) - 1) * 100.
C2_ClampOnlyNonPositive ==
    (ReturnsDone /\ total_invested # 0 /\ years # 0) =>
        /\ returns.annual = Exact(Num(-100)) <=> final_value <= 0
        /\ final_value > 0 =>
               IsCompoundGrowth(returns.annual, final_value, total_invested, years)

C2_Witness ==
    /\ ReturnsDone
    /\ final_value > 0 /\ final_value < total_invested /\ years >= 2
    /\ returns.annual.lo # returns.annual.hi
    /\ Lt(Num(-100), returns.annual.lo)

\* C3 as stated: calculate_returns(100, 1000, 5) returns (-90, -100).
C3_DocumentedLossIsClamped ==
    (ReturnsDone /\ final_value = 100 /\ total_invested = 1000 /\ years = 5) =>
        /\ returns.total = Num(-90)
        /\ returns.annual = Exact(Num(-100))

\* C3 amended: calculate_returns(100, 1000, 5) returns a total return of -90
\* and the unclamped annualized return ((100 / 1000) ** (1 / 5) - 1) * 100,
\* about -36.9, which lies strictly between -100 and 0.
C3_DocumentedLossIsCompounded ==
    (ReturnsDone /\ final_value = 100 /\ total_invested = 1000 /\ years = 5) =>
        /\ returns.total = Num(-90)
        /\ IsCompoundGrowth(returns.annual, 100, 1000, 5)
        /\ Lt(Num(-100), returns.annual.lo)
        /\ Lt(returns.annual.hi, Zero)
        /\ returns.raised = "none"

C3_Witness ==
    /\ ReturnsDone
    /\ final_value = 100 /\ total_invested = 1000 /\ years = 5
    /\ returns.total = Num(-90)

\* C4: calculate_returns never raises (never divides by zero) for any numbers,
\* negative and zero included: every input gives the fallback pair (0, 0), or
\* the computed total return with either the fallback -100 or the
\* compound-growth value.
C4_NeverRaises ==
    ReturnsDone =>
        /\ returns.raised = "none"
        /\ IF total_invested = 0 \/ years = 0
           THEN returns.total = Zero /\ returns.annual = Exact(Zero)
           ELSE /\ returns.total =
                       Norm(100 * (final_value - total_invested), total_invested)
                /\ \/ returns.annual = Exact(Num(-100))
                   \/ IsCompoundGrowth(returns.annual, final_value,
                                       total_invested, years)

C4_Witness ==
    /\ ReturnsDone
    /\ final_value < 0 /\ total_invested < 0 /\ years < 0
    /\ returns.raised = "none"
    /\ returns.annual = Exact(Num(-100))

----------------------------------------------------------------------------
(* Properties of the strategy simulators, checked under Spec               *)

SimDone == pc = "done"

StockOps ==
    {"stock.perfect_market_timing", "stock.immediate_investing",
     "stock.dollar_cost_averaging", "stock.invest_at_peaks"}

RollingOps == {"rolling.perfect_market_timing", "rolling.immediate_investing"}

\* the strategies that return their buy events
SimulatorOps == StockOps \cup RollingOps

YearlyOps == SimulatorOps \ {"stock.dollar_cost_averaging"}

\* the price column a strategy buys at
RefColumn(o) ==
    IF o \in {"stock.perfect_market_timing", "rolling.perfect_market_timing"}
    THEN "Low"
    ELSE IF o = "stock.invest_at_peaks" THEN "High" ELSE "Open"

\* the cash a strategy puts into each bucket
Contribution(o) ==
    IF o = "stock.dollar_cost_averaging"
    THEN Norm(annual_investment, MonthsPerYear)
    ELSE Num(annual_investment)

\* the calendar bucket of a date: its year, or its month for dollar-cost averaging
BucketOf(o, date) ==
    IF o = "stock.dollar_cost_averaging"
    THEN date[1] * MonthsPerYear + (date[2] - 1)
    ELSE date[1]

\* the calendar buckets from the first bar's to the last bar's
SpannedBuckets(o, d) ==
    IF Len(d) = 0 THEN {}
    ELSE BucketOf(o, d[1].date)..BucketOf(o, d[Len(d)].date)

\* the buckets that hold a bar (without the others a series is the same series)
BucketsWithBars(o, d) == {BucketOf(o, d[i].date) : i \in 1..Len(d)}

\* no bar of bucket b has a reference price
MissingReference(o, d, b) ==
    \A i \in 1..Len(d) :
        BucketOf(o, d[i].date) = b => IsNaN(d[i][RefColumn(o)])

WithoutBucket(o, d, b) == SelectSeq(d, LAMBDA bar : BucketOf(o, bar.date) # b)

EventsIn(o, points, b) == {i \in 1..Len(points) : BucketOf(o, points[i][1]) = b}

\* the strategy o run on the series d
Run(o, d) ==
    IF o = "stock.perfect_market_timing"
    THEN stock_perfect_market_timing(d, annual_investment)
    ELSE IF o = "stock.immediate_investing"
    THEN stock_immediate_investing(d, annual_investment)
    ELSE IF o = "stock.dollar_cost_averaging"
    THEN stock_dollar_cost_averaging(d, annual_investment)
    ELSE IF o = "stock.invest_at_peaks"
    THEN stock_invest_at_peaks(d, annual_investment)
    ELSE IF o = "rolling.perfect_market_timing"
    THEN calculate_strategy_returns(d, annual_investment, "perfect_market_timing")
    ELSE calculate_strategy_returns(d, annual_investment, "immediate_investing")

\* the sum, in order, of contribution / price over the buy events
RECURSIVE SharesBought(_, _)
SharesBought(points, c) ==
    IF Len(points) = 0 THEN Zero
    ELSE Add(SharesBought(SubSeq(points, 1, Len(points) - 1), c),
             Div(c, points[Len(points)][2]))

\* C5: on a series without bars every strategy yields the value 0 and no buy
\* events, and does not raise.
C5_EmptySeriesYieldsZero ==
    (SimDone /\ op \in SimulatorOps /\ Len(data) = 0) =>
        result = [value |-> Zero, buying_points |-> <<>>, raised |-> "none"]

\* C6: on a series with bars the final portfolio value of every strategy of
\* stock-analysis.py and rolling-20year.py is the sum of contribution / price
\* over its buy events, times the close of the last bar.
C6_ValueIsSharesTimesLastClose ==
    (SimDone /\ op \in SimulatorOps /\ Len(data) > 0) =>
        /\ result.raised = "none"
        /\ result.value =
               Mul(SharesBought(result.buying_points, Contribution(op)),
                   data[Len(data)].Close)

C6_Witness ==
    /\ SimDone /\ op = "stock.dollar_cost_averaging"
    /\ Len(result.buying_points) = 2
    /\ data[1].Close # data[Len(data)].Close
    /\ result.buying_points[1][2] # result.buying_points[2][2]
    /\ IsFinite(result.value) /\ Lt(Zero, result.value)

C8_BuyPricesArePositive ==
    (SimDone /\ op \in SimulatorOps) =>
        \A i \in 1..Len(result.buying_points) :
            Lt(Zero, result.buying_points[i][2])

\* C9: on a series of a single bar a yearly strategy records at most one buy
\* event; the event's price is the bar's low / open / high, and the final
\* value is (annual_amount / price) * close of that bar.
C9_SingleBar ==
    (SimDone /\ op \in YearlyOps /\ Len(data) = 1) =>
        /\ Len(result.buying_points) <= 1
        /\ Len(result.buying_points) = 1 =>
              /\ result.buying_points[1][2] = data[1][RefColumn(op)]
              /\ result.value =
                     Mul(Div(Num(annual_investment), data[1][RefColumn(op)]),
                         data[1].Close)

C9_Witness ==
    /\ SimDone /\ op = "stock.invest_at_peaks" /\ Len(data) = 1
    /\ Len(result.buying_points) = 1
    /\ data[1].High = Num(2) /\ data[1].Close = Num(1) /\ data[1].Low = Num(1)
    /\ result.value = Num(1000)

PartOfOneYear(d) ==
    Len(d) > 0 /\ \A i \in 1..Len(d) : Year(d[i]) = Year(d[1])

PerfectTimingOps == {"stock.perfect_market_timing", "rolling.perfect_market_timing"}

\* the buy event point is a purchase at the lowest low of its calendar year, on
\* a day of that year that had this low
BoughtAtYearLow(d, point) ==
    /\ \E i \in 1..Len(d) :
          /\ d[i].date = point[1]
          /\ d[i].Low = point[2]
    /\ \A j \in 1..Len(d) :
          d[j].date[1] = point[1][1] => IsNaN(d[j].Low) \/ Le(point[2], d[j].Low)

\* C12: every buy event of perfect_market_timing, in stock-analysis.py and in
\* rolling-20year.py, has as price the minimum low of its calendar year and as
\* date the date of a bar of that year whose low is that minimum.
C12_PerfectTimingBuysAtYearLow ==
    (SimDone /\ op \in PerfectTimingOps) =>
        \A i \in 1..Len(result.buying_points) :
            BoughtAtYearLow(data, result.buying_points[i])

YearsWithBars(d) == {Year(d[i]) : i \in 1..Len(d)}

\* in every year of the series the lowest low is below the first open
LowBelowOpenEveryYear(d) ==
    \A y \in YearsWithBars(d) :
        Lt(Min(Column(InYear(d, y), "Low")), First(Column(InYear(d, y), "Open")))

\* C13: on a series whose yearly low is below the yearly open in every year,
\* and for the same annual amount, the final value of perfect timing is greater
\* than or equal to the final value of immediate investing.
C13_PerfectTimingAtLeastImmediate ==
    (/\ SimDone /\ op = "stock.perfect_market_timing"
     /\ Len(data) > 0 /\ LowBelowOpenEveryYear(data)) =>
        Le(Run("stock.immediate_investing", data).value, result.value)

MarketOps == {"market.perfect_market_timing", "market.immediate_investing"}

\* the shares a market-analysis.py strategy accumulates over the yearly buckets
\* it does not skip
MarketShares(o, d) ==
    BuyLoop(IF o = "market.perfect_market_timing"
            THEN rolling_yearly_lows(d) ELSE rolling_yearly_first_days(d),
            Num(annual_investment)).shares_owned

\* C15: in market-analysis.py, on a series with bars, the value returned by
\* perfect_market_timing and by immediate_investing is the shares accumulated
\* over all yearly buckets that were not skipped, the last year included also
\* when the series ends before 31 December, times the close of the last bar.
C15_MarketValueCountsEveryYear ==
    (SimDone /\ op \in MarketOps /\ Len(data) > 0) =>
        result.value = Mul(MarketShares(op, data), data[Len(data)].Close)

----------------------------------------------------------------------------
(* Properties of the report handlers, checked under SpecReport             *)

\* calculate_rolling_analysis has returned its rows
RollingReturned ==
    frame.handler = "update_rolling_analysis" /\ frame.pc = "done"
        /\ frame.output = "table"

\* b is the day exactly one calendar month after a
OneMonthLater(a, b) ==
    /\ b[1] * 12 + b[2] = a[1] * 12 + a[2] + 1
    /\ b[3] = IF a[3] <= DaysInMonth(b[1], b[2]) THEN a[3] ELSE DaysInMonth(b[1], b[2])

\* the day y years after a (before a, for a negative y)
YearsAfter(a, y) ==
    <<a[1] + y, a[2],
      IF a[3] <= DaysInMonth(a[1] + y, a[2]) THEN a[3] ELSE DaysInMonth(a[1] + y, a[2])>>

\* the source holds no bar of the window of frame.years years that starts on s
WindowIsEmpty(s) ==
    \A i \in 1..Len(history) :
        ~(DateLe(s, history[i].date)
            /\ DateLt(history[i].date, YearsAfter(s, frame.years)))

\* today - years
LastStart == YearsAfter(today, -frame.years)

\* the rows are, start date after start date from the initial one on and one
\* calendar month apart, one row per selected strategy in the order selected,
\* each ending years after its start; every start date is at most today - years
\* and has bars in its window; frame.start_date is the first date without rows
MonthlyRows ==
    LET rows == frame.rolling_results
        selected == frame.selected_strategies
        k == Len(selected)
        n == Len(rows)
    IN  /\ k = 0 => n = 0
        /\ k > 0 => n % k = 0
        /\ \A r \in 1..n :
              /\ rows[r].Strategy = selected[((r - 1) % k) + 1]
              /\ rows[r].EndDate = YearsAfter(rows[r].StartDate, frame.years)
              /\ DateLe(rows[r].StartDate, LastStart)
              /\ ~WindowIsEmpty(rows[r].StartDate)
              /\ IF r <= k THEN rows[r].StartDate = frame.initial_date
                 ELSE IF (r - 1) % k = 0
                      THEN OneMonthLater(rows[r - 1].StartDate, rows[r].StartDate)
                      ELSE rows[r].StartDate = rows[r - 1].StartDate
        /\ k > 0 => IF n = 0 THEN frame.start_date = frame.initial_date
                    ELSE OneMonthLater(rows[n].StartDate, frame.start_date)

\* C14 as stated: when calculate_rolling_analysis returns, the result holds
\* one row per (start date, selected strategy) pair for every monthly start
\* date from the initial one up to today - years, each row ending years after
\* its start: the rows stop only at the first monthly date later than
\* today - years.
C14_RowsForEveryMonth ==
    RollingReturned =>
        /\ MonthlyRows
        /\ Len(frame.selected_strategies) > 0 => ~DateLe(frame.start_date, LastStart)

\* the calendar months from date a to date b
MonthsFrom(a, b) == (b[1] * 12 + b[2]) - (a[1] * 12 + a[2])

\* C14 amended: calculate_rolling_analysis always terminates: every pass of
\* its loop either ends it or advances the start date by exactly one calendar
\* month from a date that is at most today - years, so that the loop makes at
\* most one pass per month from the initial start date to today - years and
\* one more; the loop ends at the first monthly start date that is later than
\* today - years or whose window of years holds no bar; the result then holds
\* one row per (start date, selected strategy) pair for every monthly start
\* date from the initial one up to, and without, that date, each row ending
\* years after its start.
C14_RowsUntilEmptyWindow ==
    /\ [](RollingReturned =>
            /\ MonthlyRows
            /\ \/ ~DateLe(frame.start_date, LastStart)
               \/ WindowIsEmpty(frame.start_date))
    /\ [](frame.pc = "loop" =>
            \/ frame.start_date = frame.initial_date
            \/ MonthsFrom(frame.start_date, LastStart) >= -1)
    /\ [][frame.pc = "loop" =>
              \/ frame'.pc = "done" /\ frame'.start_date = frame.start_date
              \/ /\ frame'.pc = "loop"
                 /\ DateLe(frame.start_date, LastStart)
                 /\ OneMonthLater(frame.start_date, frame'.start_date)]_vars

C14_Witness ==
    /\ RollingReturned
    /\ Len(frame.selected_strategies) = 2
    /\ Len(frame.rolling_results) >= 4
    /\ frame.initial_date = <<1, 1, 31>>
    /\ frame.rolling_results[3].StartDate = <<1, 2, 28>>
    /\ DateLe(frame.start_date, LastStart)
    /\ WindowIsEmpty(frame.start_date)

\* the cash a strategy of the reports converts into shares at each buy event
ContributionOf(strategy_name) ==
    IF strategy_name = "Dollar-cost Averaging"
    THEN Div(Num(annual_investment), Num(12))
    ELSE Num(annual_investment)

\* C16: in every report path (update_results, calculate_rolling_analysis,
\* main of rolling-20year.py) the total_invested passed to calculate_returns
\* is the per-bucket contribution times the number of buy events the strategy
\* returned.
C16_TotalInvestedIsCashConverted ==
    \A i \in 1..Len(frame.calls) :
        frame.calls[i].total_invested =
            Mul(ContributionOf(frame.calls[i].Strategy),
                Num(Len(frame.calls[i].buying_points)))

====
